---- MODULE Spec2Model ----
(***************************************************************************)
(* Query safety-and-execution subsystem of Deita                          *)
(* (backend/app/services/query_service.py and the query endpoints of      *)
(* backend/app/api/workspaces.py).                                         *)
(*                                                                         *)
(* SQL text is represented by its syntax tree; parse_one is the operator   *)
(* that turns a text into an expression or a ParseError.  Optional Python  *)
(* values (page, size, LIMIT, OFFSET) are sequences of length 0 (None) or  *)
(* 1.  The rows of a CSV object are one-cell rows <<k>>, k identifying the *)
(* line of the object.                                                     *)
(*                                                                         *)
(* What the service gets from sqlglot is modelled as the library does it:  *)
(*   - build_scope gives a scope for a query, and for a DDL/DML statement  *)
(*     that carries a query; for any other statement it gives None;        *)
(*   - the selected sources of a scope are Table nodes and child Scopes;   *)
(*   - Query.limit()/offset() replace the clause the statement has, and    *)
(*     only queries have these methods.                                    *)
(*   - the selected sources of a scope are a dictionary keyed by source    *)
(*     name, so a name used twice in one scope gives one source, the first *)
(*     (SpecRewrite has such queries; Queries has none).                   *)
(* Set operations and statements nested in CTE bodies other than queries   *)
(* are not modelled.                                                       *)
(*                                                                         *)
(* Nine specifications share the state:                                    *)
(*   Spec        calls of QueryService.validate_query / execute_query      *)
(*   SpecHttp    POST /{workspace_id}/query                                *)
(*   SpecCsv     POST /{workspace_id}/query/csv and its row generator      *)
(*   SpecAccess  both query endpoints on a private workspace               *)
(*   SpecSave    the three ways a Query row is stored                      *)
(*   SpecDelete  the two delete_query methods                              *)
(*   SpecRewrite _validate_query_and_map_tables on its own                 *)
(*   SpecUpload  WorkspaceService.upload_file / delete_file                *)
(*   SpecEngine  _execute_ducbkdb step by step, for two calls              *)
(* The service keeps nothing between calls, so in all but the last one     *)
(* request is in flight at a time and Return ends it; they take a call as  *)
(* one step and observe its arguments and its outcome.  Connections and    *)
(* the alarm are followed by SpecEngine only, which starts where the final *)
(* SQL exists.  In SpecUpload files holds the File rows of the workspace   *)
(* (id, filename, table_name, storage_path, size) and objects the names of *)
(* the objects in the bucket.                                              *)
(*                                                                         *)
(* What SpecEngine takes from CPython and from the engine's client:        *)
(*   - signal.signal raises ValueError on any thread but the main one;     *)
(*     signal.alarm sets the one alarm of the process, alarm(0) cancels    *)
(*     it; the handler runs on the main thread;                            *)
(*   - an exception raised by the handler while the thread is inside an    *)
(*     engine call leaves that call as the client decides (InterruptOut-   *)
(*     comes); raised between the engine calls it propagates as raised;    *)
(*   - a connection that was not closed stays open until the interpreter   *)
(*     finalizes the unreferenced object.                                  *)
(***************************************************************************)
EXTENDS Integers, Sequences, FiniteSets, TLC

VARIABLES files, settings, workspace, call, http, export,
          saved, proc, alarm, conns, objects

vars == <<files, settings, workspace, call, http, export, saved, proc, alarm,
          conns, objects>>

\* The state that only SpecSave and SpecDelete (saved), SpecEngine (proc,
\* alarm, conns) and SpecUpload (objects) follow.
kept == <<saved, proc, alarm, conns, objects>>

\* ---------------------------------------------------------------- bounds
\* most data rows of the "sales" CSV object
MaxRows == 5
\* largest page number a caller passes
MaxPage == 3
\* largest page size a caller passes / settings.duckdb_page_size
MaxSize == 2
\* rows per page of the CSV export (100000 in the source, scaled down)
CsvPageSize == 2
\* most saved queries of the workspace
MaxSaved == 1
\* largest timeout, in seconds, a caller passes
MaxTimeout == 2
\* most engine connections open at a time
MaxConns == 3

None == <<>>
Some(x) == <<x>>
IsNone(o) == Len(o) = 0
Val(o) == o[1]

Min(a, b) == IF a < b THEN a ELSE b

\* ------------------------------------------------------- files (models/file.py)
\* A File row together with the CSV object stored at its storage_path.
File(tn, path, delim, quote, cols, tag, n) ==
    [table_name |-> tn, storage_path |-> path,
     csv_metadata |-> [delimiter |-> delim, quotechar |-> quote],
     columns |-> cols, row_count |-> n,
     rows |-> [i \in 1..n |-> <<tag * 100 + i>>]]

SalesFile(n) == File("sales", "ws/sales.csv", ";", "", <<"id">>, 1, n)
UsersFile == File("users", "ws/users.csv", "", "q", <<"uid">>, 2, 2)

\* The file lists a workspace can hold (table names are distinct).
FileLists ==
    {<<>>} \cup {<<SalesFile(n)>> : n \in 0..MaxRows}
           \cup {<<SalesFile(n), UsersFile>> : n \in 0..MaxRows}

\* ------------------------------------------------------------ SQL statements
\* A FROM/JOIN item: a table reference, a derived table (subquery in FROM),
\* or, after rewriting, a read_csv(...) table function.
Tbl(n, a) == [kind |-> "Table", name |-> n, alias |-> a, body |-> <<>>,
              delim |-> "", quote |-> ""]
Sub(b, a) == [kind |-> "Subquery", name |-> "", alias |-> a, body |-> <<b>>,
              delim |-> "", quote |-> ""]

\* A statement.  type is the sqlglot expression class of the root node.
\*   from  : FROM/JOIN items          ctes  : <<[alias, body]>> of the WITH
\*   where : subqueries of the WHERE  inner : the query of an INSERT..SELECT
\*   count : the projection is COUNT(*) AS count           or CREATE..AS
Stmt(t, f, c, w, l, o, i) ==
    [type |-> t, from |-> f, ctes |-> c, where |-> w, limit |-> l,
     offset |-> o, inner |-> i, count |-> FALSE]

Select(f) == Stmt("Select", f, <<>>, <<>>, None, None, <<>>)
SelectLimit(f, l) == Stmt("Select", f, <<>>, <<>>, l, None, <<>>)
WithCte(a, b, f) == Stmt("Select", f, <<[alias |-> a, body |-> b]>>, <<>>, None, None, <<>>)
SelectWhere(f, b) == Stmt("Select", f, <<>>, <<b>>, None, None, <<>>)
Other(t, i) == Stmt(t, <<>>, <<>>, <<>>, None, None, i)
Malformed == Other("Malformed", <<>>)

TableNames == {"sales", "users", "ghost"}
Aliases == {"", "t"}

LeafBodies == {Select(<<Tbl(n, "")>>) : n \in TableNames}

SelectQueries ==
    {Select(<<Tbl(n, a)>>) : n \in TableNames, a \in Aliases}
        \cup {Select(<<Tbl("sales", a), Tbl(n, "")>>) : a \in Aliases, n \in {"users", "ghost"}}
        \cup {SelectLimit(<<Tbl("sales", "")>>, Some(1))}
        \cup {WithCte("c", b, <<Tbl("c", "")>>) : b \in LeafBodies}
        \cup {WithCte("users", Select(<<Tbl("sales", "")>>), <<Tbl("users", "")>>)}
        \cup {Select(<<Sub(b, "d")>>) : b \in LeafBodies}
        \cup {SelectWhere(<<Tbl("sales", "")>>, b) : b \in LeafBodies}

\* Statements whose root is one of the classes the service means to reject.
WriteQueries ==
    {Other("Create", <<Select(<<Tbl(n, "")>>)>>) : n \in {"sales", "ghost"}}
        \cup {Other("Insert", <<Select(<<Tbl("sales", "")>>)>>)}
        \cup {Other(t, <<>>) : t \in {"Insert", "Drop", "Delete", "Update"}}

Queries == SelectQueries \cup WriteQueries \cup {Malformed}

\* ------------------------------------------------------------------ helpers
RECURSIVE Flatten(_)
Flatten(ss) == IF Len(ss) = 0 THEN <<>> ELSE Head(ss) \o Flatten(Tail(ss))

\* Names of the CTEs of a WITH clause.
CteNames(ctes) == {ctes[i].alias : i \in 1..Len(ctes)}

\* ----------------------------------------------------- QueryService (pure part)
DISALLOWED_EXPRESSIONS ==
    {"Insert", "Update", "Delete", "Merge", "Create", "Drop", "Alter",
     "TruncateTable", "Clone", "Analyze", "Commit", "Rollback", "Transaction",
     "Grant", "Revoke", "Export", "Cache", "Uncache", "Kill", "Pragma",
     "Describe", "Show", "Use", "Set", "Lock", "Comment", "Cluster", "Detach",
     "Attach", "Replace"}

\* parse_one(query): the expression, or a ParseError/TokenError.
parse_one(query) ==
    IF query.type = "Malformed"
    THEN [err |-> "ParseError", expr |-> query]
    ELSE [err |-> "", expr |-> query]

\* The text f"SELECT COUNT(*) AS count FROM ({query}) q" of count mode: a
\* query in parentheses is a derived table; any other statement in that
\* position does not parse.
CountText(query) ==
    IF query.type = "Select"
    THEN [Select(<<Sub(query, "q")>>) EXCEPT !.count = TRUE]
    ELSE Malformed

\* build_scope(expression): the root scope is the query itself, or the query
\* that a DDL/DML statement carries (INSERT .. SELECT, CREATE .. AS SELECT);
\* any other statement has no scope (None).
build_scope(expression) ==
    IF expression.type = "Select" THEN <<expression>>
    ELSE IF Len(expression.inner) = 1 THEN <<expression.inner[1]>>
    ELSE <<>>

\* The name a FROM item is known by in its scope (alias_or_name).
SourceName(item) == IF item.alias # "" THEN item.alias ELSE item.name

\* scope.selected_sources is a dictionary keyed by source name: of the FROM
\* items of one scope that share a name, it holds the first alone.
Selected(sel, i) ==
    \A j \in 1..(i - 1) : SourceName(sel.from[j]) # SourceName(sel.from[i])

\* The selected sources of one scope: a table reference that names a visible
\* CTE resolves to that CTE's Scope, a derived table to its Scope, any other
\* table reference to the Table node itself.
OwnSources(sel, visible) ==
    Flatten([i \in 1..Len(sel.from) |->
        IF ~Selected(sel, i) THEN <<>>
        ELSE IF sel.from[i].kind = "Table" /\ sel.from[i].name \notin visible
        THEN <<[type |-> "Table", name |-> sel.from[i].name, alias |-> sel.from[i].alias]>>
        ELSE <<[type |-> "Scope", name |-> "", alias |-> sel.from[i].alias]>>])

\* The sources of every scope reached by root.traverse(): CTE scopes, derived
\* table scopes and subquery scopes before the scope that holds them.
RECURSIVE ScopeItems(_, _)
ScopeItems(sel, env) ==
    LET visible == env \cup CteNames(sel.ctes)
        inCtes == [i \in 1..Len(sel.ctes) |->
                     ScopeItems(sel.ctes[i].body,
                                env \cup {sel.ctes[j].alias : j \in 1..(i - 1)})]
        inFrom == [i \in 1..Len(sel.from) |->
                     IF sel.from[i].kind = "Subquery"
                     THEN ScopeItems(sel.from[i].body[1], visible)
                     ELSE <<>>]
        inWhere == [i \in 1..Len(sel.where) |-> ScopeItems(sel.where[i], visible)]
    IN Flatten(inCtes) \o Flatten(inFrom) \o Flatten(inWhere) \o OwnSources(sel, visible)

\* Variant of _get_all_expression_items that looks at the root scope alone.
RootScopeOnly(expression) ==
    LET root == build_scope(expression)
    IN IF Len(root) = 0
       THEN [err |-> "BadQuery", items |-> <<>>]
       ELSE [err |-> "", items |-> OwnSources(root[1], CteNames(root[1].ctes))]

\* _get_all_expression_items: BadQuery when no scope can be built.
get_all_expression_items(expression) ==
    LET root == build_scope(expression)
    IN IF Len(root) = 0
       THEN [err |-> "BadQuery", items |-> <<>>]
       ELSE [err |-> "", items |-> ScopeItems(root[1], {})]

\* tables_map = {file.table_name: file for file in files}
TableNamesOf(fs) == {fs[i].table_name : i \in 1..Len(fs)}
tables_map(fs, name) ==
    fs[CHOOSE i \in 1..Len(fs) :
          /\ fs[i].table_name = name
          /\ \A j \in (i + 1)..Len(fs) : fs[j].table_name # name]

\* Variant of the replacement table that keeps item.alias alone.
AliasOnly(item, file) ==
    [kind |-> "ReadCsv", name |-> file.storage_path, alias |-> item.alias,
     body |-> <<>>, delim |-> file.csv_metadata.delimiter,
     quote |-> file.csv_metadata.quotechar]

\* to_table(_get_read_csv_calls_for_file(file)) with its alias set to
\* item.alias or table_name; delim and quote are left out of the call when
\* the metadata value is empty.
renamed_table(item, file) ==
    [kind |-> "ReadCsv", name |-> file.storage_path,
     alias |-> IF item.alias # "" THEN item.alias ELSE item.name,
     body |-> <<>>, delim |-> file.csv_metadata.delimiter,
     quote |-> file.csv_metadata.quotechar]

\* item.replace(renamed_table) for every Table source of every scope: the
\* Table nodes that _get_all_expression_items returned.
RECURSIVE MapTables(_, _, _)
MapTables(sel, env, fs) ==
    LET visible == env \cup CteNames(sel.ctes)
    IN [sel EXCEPT
          !.ctes = [i \in 1..Len(sel.ctes) |->
                      [sel.ctes[i] EXCEPT
                         !.body = MapTables(sel.ctes[i].body,
                                    env \cup {sel.ctes[j].alias : j \in 1..(i - 1)}, fs)]],
          !.from = [i \in 1..Len(sel.from) |->
                      IF sel.from[i].kind = "Subquery"
                      THEN [sel.from[i] EXCEPT !.body = <<MapTables(sel.from[i].body[1], visible, fs)>>]
                      ELSE IF /\ sel.from[i].kind = "Table"
                              /\ Selected(sel, i)
                              /\ sel.from[i].name \notin visible
                              /\ sel.from[i].name \in TableNamesOf(fs)
                      THEN renamed_table(sel.from[i], tables_map(fs, sel.from[i].name))
                      ELSE sel.from[i]],
          !.where = [i \in 1..Len(sel.where) |-> MapTables(sel.where[i], visible, fs)]]

\* The loop of _validate_query_and_map_tables up to its first raise.
RECURSIVE FirstError(_, _)
FirstError(items, fs) ==
    IF Len(items) = 0 THEN [err |-> "", detail |-> ""]
    ELSE IF Head(items).type \in DISALLOWED_EXPRESSIONS
    THEN [err |-> "DisallowedQuery", detail |-> Head(items).type]
    ELSE IF Head(items).type = "Table" /\ Head(items).name \notin TableNamesOf(fs)
    THEN [err |-> "BadQuery", detail |-> Head(items).name]
    ELSE FirstError(Tail(items), fs)

validate_query_and_map_tables(expression, fs) ==
    LET got == get_all_expression_items(expression)
        first == FirstError(got.items, fs)
    IN IF got.err # ""
       THEN [err |-> got.err, detail |-> "Unable to build scope", expr |-> expression]
       ELSE IF first.err # ""
       THEN [err |-> first.err, detail |-> first.detail, expr |-> expression]
       ELSE [err |-> "", detail |-> "",
             expr |-> IF expression.type = "Select"
                      THEN MapTables(expression, {}, fs)
                      ELSE [expression EXCEPT
                              !.inner = <<MapTables(expression.inner[1], {}, fs)>>]]

\* _add_limit: Query.limit()/offset() set the two clauses of the statement,
\* replacing any the statement already has; a statement that is no query has
\* no limit() method.
add_limit(expr, page, size) ==
    IF expr.type # "Select"
    THEN [err |-> "AttributeError", expr |-> expr]
    ELSE [err |-> "", expr |-> [expr EXCEPT !.limit = Some(size + 1),
                                           !.offset = Some((page - 1) * size)]]

\* ------------------------------------------------------- the embedded engine
\* OFFSET and LIMIT applied to a row sequence.
ApplyLimit(rows, limit, offset) ==
    LET off == IF IsNone(offset) THEN 0 ELSE Val(offset)
        last == IF IsNone(limit) THEN Len(rows) ELSE Min(Len(rows), off + Val(limit))
    IN IF off >= last THEN <<>> ELSE SubSeq(rows, off + 1, last)

\* The CSV object read by read_csv('s3://bucket/<path>').
ObjectAt(fs, path) == fs[CHOOSE i \in 1..Len(fs) : fs[i].storage_path = path]

\* DuckDB's result for a query: the rows of its FROM items one after the
\* other (a read_csv table yields the lines of the object, a derived table or
\* CTE the rows of its query), COUNT(*) collapsing them to one row, then
\* OFFSET and LIMIT.  cte maps the CTE names in scope to their results.
RECURSIVE Evaluate(_, _, _)
Evaluate(sel, cte, fs) ==
    LET env == [n \in DOMAIN cte \cup CteNames(sel.ctes) |->
                  IF \E i \in 1..Len(sel.ctes) : sel.ctes[i].alias = n
                  THEN Evaluate(sel.ctes[CHOOSE i \in 1..Len(sel.ctes) : sel.ctes[i].alias = n].body,
                                cte, fs)
                  ELSE cte[n]]
        item(i) == IF sel.from[i].kind = "ReadCsv"
                   THEN [columns |-> ObjectAt(fs, sel.from[i].name).columns,
                         rows |-> ObjectAt(fs, sel.from[i].name).rows]
                   ELSE IF sel.from[i].kind = "Subquery"
                   THEN Evaluate(sel.from[i].body[1], env, fs)
                   ELSE env[sel.from[i].name]
        all == Flatten([i \in 1..Len(sel.from) |-> item(i).rows])
    IN [columns |-> IF sel.count THEN <<"count">> ELSE item(1).columns,
        rows |-> ApplyLimit(IF sel.count THEN <<<<Len(all)>>>> ELSE all,
                            sel.limit, sel.offset)]

\* Every table the statement reads is a read_csv call or a CTE in scope.
RECURSIVE Binds(_, _)
Binds(sel, env) ==
    LET visible == env \cup CteNames(sel.ctes)
    IN /\ \A i \in 1..Len(sel.ctes) : Binds(sel.ctes[i].body, env)
       /\ \A i \in 1..Len(sel.from) :
            \/ sel.from[i].kind = "ReadCsv"
            \/ sel.from[i].kind = "Table" /\ sel.from[i].name \in visible
            \/ sel.from[i].kind = "Subquery" /\ Binds(sel.from[i].body[1], visible)
       /\ \A i \in 1..Len(sel.where) : Binds(sel.where[i], visible)

\* _execute_ducbkdb(sql): con.sql(sql) and fetchall().  up is whether the
\* session could be set up and the objects read.  CREATE .. AS SELECT runs
\* and reports the number of rows it stored; INSERT finds no target table in
\* the fresh in-memory database.
execute_duckdb(sql, fs, up) ==
    IF ~up THEN [err |-> "duckdb.Error", columns |-> <<>>, rows |-> <<>>]
    ELSE IF sql.type = "Select" /\ Binds(sql, {})
    THEN [err |-> ""] @@ Evaluate(sql, <<>>, fs)
    ELSE IF sql.type = "Create" /\ Len(sql.inner) = 1 /\ Binds(sql.inner[1], {})
    THEN [err |-> "", columns |-> <<"Count">>,
          rows |-> <<<<Len(Evaluate(sql.inner[1], <<>>, fs).rows)>>>>]
    ELSE [err |-> "duckdb.Error", columns |-> <<>>, rows |-> <<>>]

\* ----------------------------------------------------------- service calls
\* The record of one call of the service: its arguments, the exception it
\* raised ("" when it returned), the statement handed to the engine, and the
\* QueryResult.
Outcome(op, query, page, size, count, err, detail, engine, res) ==
    [op |-> op, query |-> query, page |-> page, size |-> size, count |-> count,
     err |-> err, detail |-> detail, engine |-> engine,
     columns |-> res.columns, rows |-> res.rows, has_more |-> res.has_more]

NoResult == [columns |-> <<>>, rows |-> <<>>, has_more |-> FALSE]

NoCall == Outcome("none", Malformed, None, None, FALSE, "", "", <<>>, NoResult)

\* Variant of validate_query that hands the rewritten statement to the engine.
RunWhileValidating(query, fs) ==
    LET parsed == parse_one(query)
        mapped == validate_query_and_map_tables(parsed.expr, fs)
    IN Outcome("validate", query, None, None, FALSE,
               IF parsed.err # "" THEN "BadQuery" ELSE mapped.err, "",
               IF parsed.err = "" /\ mapped.err = "" THEN <<mapped.expr>> ELSE <<>>,
               NoResult)

\* QueryService.validate_query(query, files)
validate_query(query, fs) ==
    LET parsed == parse_one(query)
        mapped == validate_query_and_map_tables(parsed.expr, fs)
    IN IF parsed.err # ""
       THEN Outcome("validate", query, None, None, FALSE, "BadQuery", "Invalid SQL query", <<>>, NoResult)
       ELSE Outcome("validate", query, None, None, FALSE, mapped.err, mapped.detail, <<>>, NoResult)

\* Variant of the trimming that keeps every fetched row.
KeepAll(rows, is_limited, size) == rows

\* rows = result['rows'] if not is_limited else result['rows'][:size]
TrimRows(rows, is_limited, size) ==
    IF is_limited THEN SubSeq(rows, 1, Min(Len(rows), size)) ELSE rows

\* Variant of is_limited that forgets count mode.
LimitAlways(count, page) == ~IsNone(page)

\* is_limited = not count and page is not None
IsLimited(count, page) == ~count /\ ~IsNone(page)

\* Variant of the except clause that lets every exception through as raised.
Reraise(exc) == exc

\* except (ParseError, TokenError, duckdb.Error) as e: raise BadQuery(str(e)) from e
\* Any other exception leaves execute_query as raised.
Surface(exc) ==
    IF exc \in {"ParseError", "TokenError", "duckdb.Error"} THEN "BadQuery" ELSE exc

\* QueryService.execute_query(query, files, page, size, count)
execute_query(query, fs, page, size_arg, count, up) ==
    LET size == IF IsNone(size_arg) THEN settings.duckdb_page_size ELSE Val(size_arg)
        text == IF count THEN CountText(query) ELSE query
        parsed == parse_one(text)
        mapped == validate_query_and_map_tables(parsed.expr, fs)
        is_limited == IsLimited(count, page)
        limited == IF is_limited THEN add_limit(mapped.expr, Val(page), size)
                   ELSE [err |-> "", expr |-> mapped.expr]
        sql == limited.expr
        result == execute_duckdb(sql, fs, up)
        fail(err, detail, engine) ==
            Outcome("execute", query, page, size_arg, count, err, detail, engine, NoResult)
    IN IF parsed.err # "" THEN fail("BadQuery", "Invalid SQL query", <<>>)
       ELSE IF mapped.err # "" THEN fail(mapped.err, mapped.detail, <<>>)
       ELSE IF limited.err # "" THEN fail(limited.err, "", <<>>)
       ELSE IF result.err # "" THEN fail(Surface(result.err), "engine", <<sql>>)
       ELSE Outcome("execute", query, page, size_arg, count, "", "", <<sql>>,
                    [columns |-> result.columns,
                     rows |-> TrimRows(result.rows, is_limited, size),
                     has_more |-> Len(result.rows) > size])

\* ------------------------------------------- HTTP layer (api/workspaces.py)
\* current_user is "" for an anonymous request.
Users == {"", "u1", "u2"}

PublicOrphan == [is_public |-> TRUE, owner_id |-> ""]
PrivateOwned == [is_public |-> FALSE, owner_id |-> "u1"]
Workspaces == {PublicOrphan, PrivateOwned}

\* Variant of is_owner that takes any signed-in user for the owner.
AnySignedIn(w, user) == user # ""

\* WorkspaceService.is_owner
is_owner(w, user) == user # "" /\ w.owner_id = user

\* Workspace.is_private
is_private(w) == ~w.is_public

\* WorkspaceService.list_workspace_files
list_workspace_files(w, user, fs) ==
    IF w.is_public THEN fs
    ELSE IF is_private(w) /\ user # "" /\ w.owner_id = user THEN fs
    ELSE <<>>

\* The response of an endpoint and the request it answers.
Response(op, user, found, invoked, res) ==
    [op |-> op, user |-> user, found |-> found, invoked |-> invoked,
     columns |-> res.columns, rows |-> res.rows, has_more |-> res.has_more,
     status |-> "200", error |-> ""]

\* The JSON error response of the exception handlers of main.py.
ErrorResponse(op, user, status, error) ==
    [Response(op, user, TRUE, TRUE, NoResult) EXCEPT !.status = status, !.error = error]

NoHttp == Response("none", "", TRUE, FALSE, NoResult)

\* The size the endpoint asks the service for.
OverFetchArg(page_size) == page_size + 1

\* POST /{workspace_id}/query: the service call it makes (NoCall when it makes
\* none) and its response; every exception becomes the empty QueryResult.
endpoint_execute_query(found, user, q, page, count, up) ==
    LET denied == ~workspace.is_public /\ (user = "" \/ ~is_owner(workspace, user))
        fs == list_workspace_files(workspace, user, files)
        result == execute_query(q, fs, Some(page), Some(OverFetchArg(settings.duckdb_page_size)), count, up)
        page_size == settings.duckdb_page_size
    IN IF ~found \/ denied
       THEN [call |-> NoCall, http |-> Response("query", user, found, FALSE, NoResult)]
       ELSE IF result.err # ""
       THEN [call |-> result, http |-> Response("query", user, found, TRUE, NoResult)]
       ELSE [call |-> result,
             http |-> Response("query", user, found, TRUE,
                        [columns |-> result.columns,
                         rows |-> SubSeq(result.rows, 1, Min(Len(result.rows), page_size)),
                         has_more |-> Len(result.rows) > page_size])]

\* ------------------------ _execute_ducbkdb, step by step (for SpecEngine)
\* A call runs on the main thread or on a worker thread (the generator of a
\* StreamingResponse runs on one); two calls on one thread do not overlap.
Slots == {"A", "B"}
Threads == {"main", "worker"}
Timeouts == {None} \cup {Some(t) : t \in 1..MaxTimeout}

\* One execute_query call from the point where the final SQL exists:
\*   pc      signal, connect, setup, run, close, finally, done (or idle)
\*   exc     the exception travelling through _execute_ducbkdb ("" for none)
\*   con     the call has opened a connection that is not closed
\*   err     what execute_query raised ("" when it returned)
\*   expired the SIGALRM of the call's timeout has been delivered to it
ProcIdle ==
    [pc |-> "idle", thread |-> "main", timeout |-> None,
     exc |-> "", con |-> FALSE, err |-> "", expired |-> FALSE]

\* The alarm of the process (signal.alarm): at most one, owner armed it.
NoAlarm == [armed |-> FALSE, owner |-> "", left |-> 0]

InFlight(p) == p.pc \notin {"idle", "done"}

\* The exception class QueryTimeout of services/exceptions.py: a class of its
\* own, not a BadQuery.
QueryTimeout == "QueryTimeout"

\* The steps during which the thread is inside the engine (con.sql, fetchall).
EngineSteps == {"setup", "run"}

\* What leaves an engine call in progress when the handler of SIGALRM raises
\* QueryTimeout in it: the engine's client notices the signal in its
\* execution loop and, by version, lets the handler's exception through,
\* raises RuntimeError("Query interrupted"), or raises its InterruptException
\* (a duckdb.Error).
InterruptOutcomes == {QueryTimeout, "RuntimeError", "duckdb.Error"}

KeptIdle ==
    /\ saved = <<>>
    /\ proc = [s \in Slots |-> ProcIdle]
    /\ alarm = NoAlarm
    /\ conns = 0
    /\ objects = {}

\* --------------------------------------------------------------- the system
Pages == {None} \cup {Some(p) : p \in 1..MaxPage}
Sizes == {None} \cup {Some(s) : s \in 1..MaxSize}

ExportIdle ==
    [pc |-> "idle", query |-> Malformed, page |-> 0, headers_set |-> FALSE,
     output |-> <<>>, pending |-> <<>>, has_more |-> FALSE, stream |-> <<>>,
     fetches |-> 0, parses |-> 0, resolutions |-> 0]

Init ==
    /\ files \in FileLists
    /\ settings \in [duckdb_page_size : 1..MaxSize]
    /\ workspace = PublicOrphan
    /\ call = NoCall
    /\ http = NoHttp
    /\ export = ExportIdle
    /\ KeptIdle

InitHttp ==
    /\ files \in FileLists
    /\ settings \in [duckdb_page_size : 1..MaxSize]
    /\ workspace \in Workspaces
    /\ call = NoCall
    /\ http = NoHttp
    /\ export = ExportIdle
    /\ KeptIdle

Idle == call.op = "none" /\ http.op = "none" /\ export.pc = "idle"

\* One request is in flight at a time; Return ends it (the service keeps
\* nothing from one call to the next).
ValidateQuery ==
    \E q \in Queries :
        /\ Idle
        /\ call' = validate_query(q, files)
        /\ UNCHANGED <<kept, files, settings, workspace, http, export>>

ExecuteQuery ==
    \E q \in Queries, page \in Pages, size \in Sizes, count \in BOOLEAN, up \in BOOLEAN :
        /\ Idle
        /\ call' = execute_query(q, files, page, size, count, up)
        /\ UNCHANGED <<kept, files, settings, workspace, http, export>>

Return ==
    /\ ~Idle
    /\ export.pc \in {"idle", "done", "failed"}
    /\ call' = NoCall
    /\ http' = NoHttp
    /\ export' = ExportIdle
    /\ UNCHANGED <<kept, files, settings, workspace>>

Next ==
    \/ ValidateQuery
    \/ ExecuteQuery
    \/ Return

Spec == Init /\ [][Next]_vars

\* POST /{workspace_id}/query
QueryEndpoint ==
    \E q \in Queries, user \in Users, page \in 1..MaxPage, count \in BOOLEAN, up \in BOOLEAN :
        /\ Idle
        /\ call' = endpoint_execute_query(TRUE, user, q, page, count, up).call
        /\ http' = endpoint_execute_query(TRUE, user, q, page, count, up).http
        /\ UNCHANGED <<kept, files, settings, workspace, export>>

\* POST /{workspace_id}/query for an id that names no workspace
QueryEndpointNotFound ==
    \E q \in Queries, user \in Users :
        /\ Idle
        /\ call' = endpoint_execute_query(FALSE, user, q, 1, FALSE, TRUE).call
        /\ http' = endpoint_execute_query(FALSE, user, q, 1, FALSE, TRUE).http
        /\ UNCHANGED <<kept, files, settings, workspace, export>>

NextHttp ==
    \/ QueryEndpoint
    \/ QueryEndpointNotFound
    \/ Return

SpecHttp == InitHttp /\ [][NextHttp]_vars

\* ----------------------------------- CSV export (export_query_csv, its generator)
\* Lines written by csv.writer: the header line, or one data row.
HeaderLine == [header |-> TRUE, row |-> <<>>]
RowLine(r) == [header |-> FALSE, row |-> r]

\* POST /{workspace_id}/query/csv: the access check, then the response that
\* wraps the generator (which has not run yet).
ExportRequest ==
    \E q \in Queries, user \in Users :
        /\ Idle
        /\ LET denied == ~workspace.is_public /\ (user = "" \/ ~is_owner(workspace, user))
           IN /\ http' = Response("csv", user, TRUE, FALSE, NoResult)
              /\ export' = IF denied
                           THEN [ExportIdle EXCEPT !.pc = "done"]
                           ELSE [ExportIdle EXCEPT !.pc = "fetch", !.query = q, !.page = 1]
        /\ UNCHANGED <<kept, files, settings, workspace, call>>

\* Head of the while loop: execute_query for the page, then the header line
\* goes to the buffer while headers_set is false.  An exception of the
\* service ends the generator.  Every execute_query call runs parse_one on
\* the text and, when that gave an expression, the class test and the table
\* resolution of _validate_query_and_map_tables: parses and resolutions
\* count these runs.
ExportFetch ==
    \E up \in BOOLEAN :
        /\ export.pc = "fetch"
        /\ LET result == execute_query(export.query,
                             list_workspace_files(workspace, http.user, files),
                             Some(export.page), Some(CsvPageSize), FALSE, up)
               resolved == IF parse_one(export.query).err = "" THEN 1 ELSE 0
           IN /\ call' = result
              /\ export' = IF result.err # ""
                           THEN [export EXCEPT !.pc = "failed", !.fetches = @ + 1,
                                               !.parses = @ + 1,
                                               !.resolutions = @ + resolved]
                           ELSE [export EXCEPT
                                   !.pc = "rows",
                                   !.fetches = @ + 1,
                                   !.parses = @ + 1,
                                   !.resolutions = @ + resolved,
                                   !.output = IF export.headers_set THEN @ ELSE Append(@, HeaderLine),
                                   !.pending = result.rows,
                                   !.has_more = result.has_more]
        /\ UNCHANGED <<kept, files, settings, workspace, http>>

\* Body of the for loop: write the row, yield the buffer, empty the buffer.
ExportYield ==
    /\ export.pc = "rows"
    /\ Len(export.pending) > 0
    /\ export' = [export EXCEPT
                    !.stream = @ \o export.output \o <<RowLine(Head(export.pending))>>,
                    !.output = <<>>,
                    !.pending = Tail(@)]
    /\ UNCHANGED <<kept, files, settings, workspace, call, http>>

\* Variant of the end of the for loop that goes on to the next page while rows
\* of the page are still to be written.
PrefetchNextPage ==
    /\ export.pc = "rows"
    /\ export' = IF export.has_more
                 THEN [export EXCEPT !.pc = "fetch", !.page = @ + 1]
                 ELSE [export EXCEPT !.pc = "done"]
    /\ UNCHANGED <<kept, files, settings, workspace, call, http>>

\* After the for loop: the next page, or the end of the generator.
ExportPageEnd ==
    /\ export.pc = "rows"
    /\ Len(export.pending) = 0
    /\ export' = IF export.has_more
                 THEN [export EXCEPT !.pc = "fetch", !.page = @ + 1]
                 ELSE [export EXCEPT !.pc = "done"]
    /\ UNCHANGED <<kept, files, settings, workspace, call, http>>

NextCsv ==
    \/ ExportRequest
    \/ ExportFetch
    \/ ExportYield
    \/ ExportPageEnd
    \/ Return

SpecCsv == InitHttp /\ [][NextCsv]_vars

\* ---------------------------- both query endpoints on a private workspace
InitAccess ==
    /\ files \in FileLists
    /\ settings = [duckdb_page_size |-> MaxSize]
    /\ workspace = PrivateOwned
    /\ call = NoCall
    /\ http = NoHttp
    /\ export = ExportIdle
    /\ KeptIdle

NextAccess ==
    \/ QueryEndpoint
    \/ ExportRequest
    \/ ExportFetch
    \/ ExportYield
    \/ ExportPageEnd
    \/ Return

SpecAccess == InitAccess /\ [][NextAccess]_vars

\* ------------------------------------------------------- saving a query
\* Workspace.is_orphaned
is_orphaned(w) == w.owner_id = ""

\* The permission check of the save_query endpoint and of
\* QueryService.save_query: anyone in a public orphan workspace, the owner
\* only in a private one and in a public one that has an owner.
save_forbidden(w, user) ==
    IF w.is_public /\ is_orphaned(w) THEN FALSE
    ELSE IF is_private(w) THEN user = "" \/ ~is_owner(w, user)
    ELSE user = "" \/ ~is_owner(w, user)

\* The Query row that db.add / db.commit stores.
QueryRow(sql_text) == [sql_text |-> sql_text, ai_generated |-> FALSE]

\* HTTP status of an exception, by its base class (main.py).
StatusOf(err) ==
    IF err \in {"BadQuery", "DisallowedQuery"} THEN "400"
    ELSE IF err = "WorkspaceForbidden" THEN "403"
    ELSE "500"

Forbidden(op, q) ==
    Outcome(op, q, None, None, FALSE, "WorkspaceForbidden", "", <<>>, NoResult)

\* POST /{workspace_id}/queries
SaveQueryEndpoint ==
    \E q \in Queries, user \in Users :
        /\ Idle
        /\ Len(saved) < MaxSaved
        /\ LET v == validate_query(q, list_workspace_files(workspace, user, files))
           IN IF save_forbidden(workspace, user)
              THEN /\ call' = NoCall
                   /\ http' = ErrorResponse("save", user, StatusOf("WorkspaceForbidden"), "")
                   /\ UNCHANGED saved
              ELSE IF v.err # ""
              THEN /\ call' = v
                   /\ http' = ErrorResponse("save", user, StatusOf(v.err), v.detail)
                   /\ UNCHANGED saved
              ELSE /\ call' = v
                   /\ http' = [Response("save", user, TRUE, TRUE, NoResult) EXCEPT !.status = "201"]
                   /\ saved' = Append(saved, QueryRow(q))
        /\ UNCHANGED <<files, settings, workspace, export, proc, alarm, conns, objects>>

\* QueryService.save_query(workspace, name, query_text, files, current_user)
ServiceSaveQuery ==
    \E q \in Queries, user \in Users :
        /\ Idle
        /\ Len(saved) < MaxSaved
        /\ LET v == validate_query(q, files)
           IN IF save_forbidden(workspace, user)
              THEN /\ call' = Forbidden("save", q)
                   /\ UNCHANGED saved
              ELSE IF v.err # ""
              THEN /\ call' = [v EXCEPT !.op = "save"]
                   /\ UNCHANGED saved
              ELSE /\ call' = [v EXCEPT !.op = "save"]
                   /\ saved' = Append(saved, QueryRow(q))
        /\ UNCHANGED <<files, settings, workspace, http, export, proc, alarm, conns, objects>>

\* WorkspaceService.save_query(workspace, name, sql_text, user): the
\* permission check, then the row.
WorkspaceSaveQuery ==
    \E q \in Queries, user \in Users :
        /\ Idle
        /\ Len(saved) < MaxSaved
        /\ IF is_private(workspace) /\ (user = "" \/ workspace.owner_id # user)
           THEN /\ call' = Forbidden("workspace_save", q)
                /\ UNCHANGED saved
           ELSE /\ call' = Outcome("workspace_save", q, None, None, FALSE, "", "", <<>>, NoResult)
                /\ saved' = Append(saved, QueryRow(q))
        /\ UNCHANGED <<files, settings, workspace, http, export, proc, alarm, conns, objects>>

\* The files of a workspace as far as validation reads them.
SaveFileLists == {<<>>, <<SalesFile(0)>>, <<SalesFile(0), UsersFile>>}

InitSave ==
    /\ files \in SaveFileLists
    /\ settings = [duckdb_page_size |-> MaxSize]
    /\ workspace \in Workspaces
    /\ call = NoCall
    /\ http = NoHttp
    /\ export = ExportIdle
    /\ KeptIdle

NextSave ==
    \/ SaveQueryEndpoint
    \/ ServiceSaveQuery
    \/ WorkspaceSaveQuery
    \/ Return

SpecSave == InitSave /\ [][NextSave]_vars

\* --------------------------------- _validate_query_and_map_tables on its own
\* The expressions given to it: every parsed statement of Queries, and
\* queries that use one source name twice in a scope.
SameNameQueries ==
    {Select(<<Tbl("sales", ""), Tbl("sales", "")>>),
     Select(<<Tbl("sales", "t"), Tbl("users", "t")>>),
     Select(<<Sub(Select(<<Tbl("users", ""), Tbl("users", "")>>), "d")>>)}

Expressions == SelectQueries \cup WriteQueries \cup SameNameQueries

\* The record of one call: the expression given, the exception raised ("" when
\* it returned) and the expression returned.
MapOutcome(expression, mapped) ==
    [op |-> "map", query |-> expression, err |-> mapped.err,
     detail |-> mapped.detail,
     expr |-> IF mapped.err = "" THEN <<mapped.expr>> ELSE <<>>]

MapTablesCall ==
    \E e \in Expressions :
        /\ Idle
        /\ call' = MapOutcome(e, validate_query_and_map_tables(e, files))
        /\ UNCHANGED <<kept, files, settings, workspace, http, export>>

NextRewrite ==
    \/ MapTablesCall
    \/ Return

SpecRewrite == Init /\ [][NextRewrite]_vars

\* ------------------------------------------------ deleting a saved query
\* The exception class QueryNotFound of services/exceptions.py.
QueryNotFound == "QueryNotFound"

\* A public workspace that has an owner.
PublicOwned == [is_public |-> TRUE, owner_id |-> "u1"]
DeleteWorkspaces == {PublicOrphan, PrivateOwned, PublicOwned}

\* workspace.id of the workspace of the request, and the id of another one.
WorkspaceId == "w1"
WorkspaceIds == {WorkspaceId, "w2"}

\* Query rows as the database holds them, and the ids a caller can pass.
QueryIds == {"q1", "q2"}
PassedIds == QueryIds \cup {"q3"}
StoredQuery(id, ws) ==
    [id |-> id, workspace_id |-> ws] @@ QueryRow(Select(<<Tbl("sales", "")>>))

StoredQueries ==
    {<<>>}
        \cup {<<StoredQuery("q1", w)>> : w \in WorkspaceIds}
        \cup {<<StoredQuery("q1", w), StoredQuery("q2", v)>> : w, v \in WorkspaceIds}

\* db.query(Query).filter(Query.id == query_id,
\*                        Query.workspace_id == workspace.id).first()
FindQuery(rows, query_id) ==
    SelectSeq(rows, LAMBDA r : r.id = query_id /\ r.workspace_id = WorkspaceId)

\* db.delete(query); db.commit()
DeleteRow(rows, query_id) == SelectSeq(rows, LAMBDA r : r.id # query_id)

\* Variant of the permission check that guards private workspaces only.
PrivateOnly(w, user) == is_private(w) /\ (user = "" \/ w.owner_id # user)

\* The permission check of QueryService.delete_query.
delete_forbidden(w, user) ==
    IF w.is_public /\ is_orphaned(w) THEN FALSE
    ELSE IF is_private(w) THEN user = "" \/ w.owner_id # user
    ELSE user = "" \/ w.owner_id # user

\* The permission check of WorkspaceService.delete_query.
workspace_delete_forbidden(w, user) ==
    IF w.is_public
    THEN IF w.owner_id # "" THEN user = "" \/ w.owner_id # user ELSE FALSE
    ELSE IF is_private(w) THEN user = "" \/ w.owner_id # user
    ELSE TRUE

\* The record of one delete call: its arguments and the exception it raised.
DeleteOutcome(op, query_id, user, err) ==
    [op |-> op, query_id |-> query_id, user |-> user, err |-> err]

\* QueryService.delete_query(workspace, query_id, current_user)
DeleteQuery ==
    \E query_id \in PassedIds, user \in Users :
        /\ Idle
        /\ IF Len(FindQuery(saved, query_id)) = 0
           THEN /\ call' = DeleteOutcome("delete", query_id, user, QueryNotFound)
                /\ UNCHANGED saved
           ELSE IF delete_forbidden(workspace, user)
           THEN /\ call' = DeleteOutcome("delete", query_id, user, "WorkspaceForbidden")
                /\ UNCHANGED saved
           ELSE /\ call' = DeleteOutcome("delete", query_id, user, "")
                /\ saved' = DeleteRow(saved, query_id)
        /\ UNCHANGED <<files, settings, workspace, http, export, proc, alarm, conns, objects>>

\* WorkspaceService.delete_query(workspace, query_id, user)
WorkspaceDeleteQuery ==
    \E query_id \in PassedIds, user \in Users :
        /\ Idle
        /\ IF Len(FindQuery(saved, query_id)) = 0
           THEN /\ call' = DeleteOutcome("workspace_delete", query_id, user, QueryNotFound)
                /\ UNCHANGED saved
           ELSE IF workspace_delete_forbidden(workspace, user)
           THEN /\ call' = DeleteOutcome("workspace_delete", query_id, user, "WorkspaceForbidden")
                /\ UNCHANGED saved
           ELSE /\ call' = DeleteOutcome("workspace_delete", query_id, user, "")
                /\ saved' = DeleteRow(saved, query_id)
        /\ UNCHANGED <<files, settings, workspace, http, export, proc, alarm, conns, objects>>

InitDelete ==
    /\ files = <<>>
    /\ settings = [duckdb_page_size |-> MaxSize]
    /\ workspace \in DeleteWorkspaces
    /\ call = NoCall
    /\ http = NoHttp
    /\ export = ExportIdle
    /\ proc = [s \in Slots |-> ProcIdle]
    /\ alarm = NoAlarm
    /\ conns = 0
    /\ objects = {}
    /\ saved \in StoredQueries

NextDelete ==
    \/ DeleteQuery
    \/ WorkspaceDeleteQuery
    \/ Return

SpecDelete == InitDelete /\ [][NextDelete]_vars

\* ------------------------------ uploading and deleting files of a workspace
\* FileNotFound is imported by workspace_service.py; like Workspace.visibility,
\* max_file_size, max_storage and storage_used it is defined nowhere in the
\* sources at hand.  visibility is "private" exactly when is_private holds.
FileNotFound == "FileNotFound"

\* workspace.max_file_size and workspace.max_storage, in bytes
MaxFileSize == 2
MaxStorage == 3

\* uuid4 values; an upload takes the least one in use by no object and no
\* record (which of the unused values it is does not matter to the code).
Uuids == 1..(MaxStorage + 1)

\* A workspace with its quota fields.
Quota(w, used) ==
    [is_public |-> w.is_public, owner_id |-> w.owner_id, storage_used |-> used,
     max_file_size |-> MaxFileSize, max_storage |-> MaxStorage]

\* The uploads a caller sends: file.filename, len(contents), and whether the
\* content type and the contents are those of a CSV text.
Filenames == {"sales.csv", "sales.CSV", "users.csv", "notes.txt"}
FileSizes == 1..(MaxFileSize + 1)

\* os.path.splitext(filename): the name and the extension with its dot.
splitext(filename) ==
    CASE filename = "sales.csv" -> <<"sales", ".csv">>
      [] filename = "sales.CSV" -> <<"sales", ".CSV">>
      [] filename = "users.csv" -> <<"users", ".csv">>
      [] filename = "notes.txt" -> <<"notes", ".txt">>

\* str.lower() on an extension
lower(ext) == IF ext = ".CSV" THEN ".csv" ELSE ext

\* _get_name_without_extension
get_name_without_extension(filename) == splitext(filename)[1]

\* The object name f"{uuid.uuid4()}.csv".
ObjectName(id) == <<id, "csv">>

\* _create_file_record: the File row of an upload.
FileRecord(id, filename, size) ==
    [id |-> id, table_name |-> get_name_without_extension(filename),
     filename |-> filename, storage_path |-> ObjectName(id), size |-> size]

\* WorkspaceService.can_access
can_access(w, user) ==
    IF w.is_public THEN TRUE
    ELSE IF is_private(w) THEN user # "" /\ w.owner_id = user
    ELSE FALSE

\* WorkspaceService.can_modify
can_modify(w, user) == ~is_orphaned(w) /\ user # "" /\ w.owner_id = user

\* _validate_file_permissions: the exception it raises, "" when none.
validate_file_permissions(w, user) ==
    IF ~can_access(w, user) THEN "WorkspaceNotFound"
    ELSE IF is_private(w) /\ ~can_modify(w, user) THEN "WorkspaceForbidden"
    ELSE ""

\* _validate_file_size, _validate_workspace_storage, _validate_file_type and
\* _extract_csv_metadata, in the order upload_file calls them.
validate_contents(w, used, filename, size, is_csv) ==
    IF size > w.max_file_size THEN "FileTooLarge"
    ELSE IF used + size > w.max_storage THEN "WorkspaceQuotaExceeded"
    ELSE IF lower(splitext(filename)[2]) # ".csv" THEN "FileTypeNotAllowed"
    ELSE IF ~is_csv THEN "FileTypeNotAllowed"
    ELSE ""

\* Sum of the sizes of the records of fs at the positions in S.
RECURSIVE SizeOf(_, _)
SizeOf(fs, S) ==
    IF S = {} THEN 0
    ELSE LET i == CHOOSE k \in S : TRUE IN fs[i].size + SizeOf(fs, S \ {i})

\* The records of fs that are not at a position in S, in order.
Without(fs, S) ==
    LET keep == {i \in 1..Len(fs) : i \notin S}
        nth(k) == CHOOSE i \in keep : Cardinality({j \in keep : j < i}) = k - 1
    IN [k \in 1..Cardinality(keep) |-> fs[nth(k)]]

\* The record of one call.
FileOutcome(op, filename, size, overwrite, user, err) ==
    [op |-> op, filename |-> filename, size |-> size, overwrite |-> overwrite,
     user |-> user, err |-> err]

\* delete_file: who may not delete (the lookup having found the record).
delete_file_forbidden(w, user) ==
    IF w.is_public THEN FALSE
    ELSE IF is_private(w) THEN user = "" \/ w.owner_id # user
    ELSE TRUE

\* WorkspaceService.upload_file.  The records of the same filename are
\* deleted (delete_file commits each) before the contents are validated.
UploadFile ==
    \E filename \in Filenames, size \in FileSizes, is_csv \in BOOLEAN,
       overwrite \in BOOLEAN, user \in Users :
        LET denied == validate_file_permissions(workspace, user)
            existing == {i \in 1..Len(files) : files[i].filename = filename}
            barred == {i \in existing : delete_file_forbidden(workspace, user)}
            left == Without(files, existing)
            gone == {files[i].storage_path : i \in existing}
            used == workspace.storage_used - SizeOf(files, existing)
            invalid == validate_contents(workspace, used, filename, size, is_csv)
            id == CHOOSE u \in Uuids :
                    /\ ObjectName(u) \notin objects
                    /\ \A i \in 1..Len(files) : files[i].id # u
                    /\ \A v \in Uuids :
                         (ObjectName(v) \notin objects
                            /\ \A i \in 1..Len(files) : files[i].id # v) => u <= v
            result(err) == FileOutcome("upload", filename, size, overwrite, user, err)
        IN /\ Idle
           /\ IF denied # ""
              THEN /\ call' = result(denied)
                   /\ UNCHANGED <<files, workspace, objects>>
              ELSE IF existing # {} /\ ~overwrite
              THEN /\ call' = result("BadRequestException")
                   /\ UNCHANGED <<files, workspace, objects>>
              ELSE IF barred # {}
              THEN /\ call' = result("WorkspaceForbidden")
                   /\ UNCHANGED <<files, workspace, objects>>
              ELSE IF invalid # ""
              THEN /\ call' = result(invalid)
                   /\ files' = left
                   /\ objects' = objects \ gone
                   /\ workspace' = [workspace EXCEPT !.storage_used = used]
              ELSE /\ call' = result("")
                   /\ files' = Append(left, FileRecord(id, filename, size))
                   /\ objects' = (objects \ gone) \cup {ObjectName(id)}
                   /\ workspace' = [workspace EXCEPT !.storage_used = used + size]
           /\ UNCHANGED <<settings, http, export, saved, proc, alarm, conns>>

\* WorkspaceService.delete_file
DeleteFile ==
    \E file_id \in Uuids, user \in Users :
        LET found == {i \in 1..Len(files) : files[i].id = file_id}
            result(err) == FileOutcome("delete_file", "", 0, FALSE, user, err)
        IN /\ Idle
           /\ IF found = {}
              THEN /\ call' = result(FileNotFound)
                   /\ UNCHANGED <<files, workspace, objects>>
              ELSE IF delete_file_forbidden(workspace, user)
              THEN /\ call' = result("WorkspaceForbidden")
                   /\ UNCHANGED <<files, workspace, objects>>
              ELSE /\ call' = result("")
                   /\ files' = Without(files, found)
                   /\ objects' = objects \ {files[i].storage_path : i \in found}
                   /\ workspace' = [workspace EXCEPT
                                      !.storage_used = @ - SizeOf(files, found)]
           /\ UNCHANGED <<settings, http, export, saved, proc, alarm, conns>>

InitUpload ==
    /\ files = <<>>
    /\ settings = [duckdb_page_size |-> MaxSize]
    /\ workspace \in {Quota(w, 0) : w \in Workspaces}
    /\ call = NoCall
    /\ http = NoHttp
    /\ export = ExportIdle
    /\ KeptIdle

NextUpload ==
    \/ UploadFile
    \/ DeleteFile
    \/ Return

SpecUpload == InitUpload /\ [][NextUpload]_vars

\* ------------------------------------ execute_query with its engine call
\* The frame of the steps below.
Untouched == <<files, settings, workspace, call, http, export, saved, objects>>

\* The slot, if any, of the call in flight on the main thread.
MainSlots == {s \in Slots : InFlight(proc[s]) /\ proc[s].thread = "main"}

\* execute_query(query, files, page, size, count, timeout) has parsed and
\* rewritten the statement and enters _execute_ducbkdb(sql, timeout).
EnterExecute(s) ==
    \E thread \in Threads, timeout \in Timeouts :
        /\ proc[s].pc = "idle"
        /\ thread = "main" => MainSlots = {}
        /\ proc' = [proc EXCEPT ![s] = [ProcIdle EXCEPT !.pc = "signal",
                                                     !.thread = thread,
                                                     !.timeout = timeout]]
        /\ UNCHANGED <<Untouched, alarm, conns>>

\* if timeout is not None: signal.signal(SIGALRM, timeout_handler);
\* signal.alarm(timeout).  signal.signal raises ValueError on any thread but
\* the main one; that is before the try, and execute_query does not catch it.
\* signal.alarm replaces the alarm of the process.
SignalAlarm(s) ==
    /\ proc[s].pc = "signal"
    /\ IF IsNone(proc[s].timeout)
       THEN /\ proc' = [proc EXCEPT ![s].pc = "connect"]
            /\ UNCHANGED alarm
       ELSE IF proc[s].thread # "main"
       THEN /\ proc' = [proc EXCEPT ![s].pc = "done", ![s].err = Surface("ValueError")]
            /\ UNCHANGED alarm
       ELSE /\ proc' = [proc EXCEPT ![s].pc = "connect"]
            /\ alarm' = [armed |-> TRUE, owner |-> s, left |-> Val(proc[s].timeout)]
    /\ UNCHANGED <<Untouched, conns>>

\* _get_connection: con = duckdb.connect()
GetConnection(s) ==
    /\ proc[s].pc = "connect"
    /\ conns < MaxConns
    /\ proc' = [proc EXCEPT ![s].pc = "setup", ![s].con = TRUE]
    /\ conns' = conns + 1
    /\ UNCHANGED <<Untouched, alarm>>

\* _get_connection: self._setup_s3(con), which runs INSTALL / LOAD / CREATE
\* SECRET in the engine; a duckdb.Error of it leaves through the except
\* clause of _execute_ducbkdb.
SetupS3(s) ==
    \E ok \in BOOLEAN :
        /\ proc[s].pc = "setup"
        /\ proc' = IF ok THEN [proc EXCEPT ![s].pc = "run"]
                   ELSE [proc EXCEPT ![s].pc = "finally", ![s].exc = "duckdb.Error"]
        /\ UNCHANGED <<Untouched, alarm, conns>>

\* result = con.sql(sql); res = {columns, rows: result.fetchall()}
ConSql(s) ==
    \E ok \in BOOLEAN :
        /\ proc[s].pc = "run"
        /\ proc' = IF ok THEN [proc EXCEPT ![s].pc = "close"]
                   ELSE [proc EXCEPT ![s].pc = "finally", ![s].exc = "duckdb.Error"]
        /\ UNCHANGED <<Untouched, alarm, conns>>

\* con.close(); return res
ConClose(s) ==
    /\ proc[s].pc = "close"
    /\ proc' = [proc EXCEPT ![s].pc = "finally", ![s].con = FALSE]
    /\ conns' = conns - 1
    /\ UNCHANGED <<Untouched, alarm>>

\* finally: if timeout is not None: signal.alarm(0), which cancels the alarm
\* of the process; then the result or the exception leaves _execute_ducbkdb
\* and passes the except clause of execute_query.
FinallyAlarm(s) ==
    /\ proc[s].pc = "finally"
    /\ alarm' = IF IsNone(proc[s].timeout) THEN alarm ELSE NoAlarm
    /\ proc' = [proc EXCEPT ![s].pc = "done", ![s].err = Surface(proc[s].exc)]
    /\ UNCHANGED <<Untouched, conns>>

\* The caller has the result or has handled the exception; a connection the
\* call left open is no longer referenced.
CallReturns(s) ==
    /\ proc[s].pc = "done"
    /\ proc' = [proc EXCEPT ![s] = ProcIdle]
    /\ UNCHANGED <<Untouched, alarm, conns>>

\* One second passes; the alarm goes off before time passes beyond it.
Tick ==
    /\ alarm.armed
    /\ alarm.left > 0
    /\ alarm' = [alarm EXCEPT !.left = @ - 1]
    /\ UNCHANGED <<Untouched, proc, conns>>

\* SIGALRM: timeout_handler runs on the main thread and raises QueryTimeout
\* in the call that thread is running: inside the try it leaves through the
\* except clause and the finally; inside the finally it ends the call.
AlarmFires ==
    \E exc \in InterruptOutcomes :
        /\ alarm.armed /\ alarm.left = 0
        /\ alarm' = NoAlarm
        /\ proc' = [s \in Slots |->
                      IF s \notin MainSlots \/ proc[s].pc = "signal" THEN proc[s]
                      ELSE IF proc[s].pc = "finally"
                      THEN [proc[s] EXCEPT !.pc = "done", !.expired = TRUE,
                                           !.err = Surface(QueryTimeout)]
                      ELSE [proc[s] EXCEPT !.pc = "finally", !.expired = TRUE,
                                           !.exc = IF proc[s].pc \in EngineSteps
                                                   THEN exc ELSE QueryTimeout]]
        /\ UNCHANGED <<Untouched, conns>>

\* The interpreter finalizes a connection object nothing refers to, which
\* closes it.
Finalize ==
    /\ conns > Cardinality({s \in Slots : proc[s].con})
    /\ conns' = conns - 1
    /\ UNCHANGED <<Untouched, proc, alarm>>

NextEngine ==
    \/ \E s \in Slots : EnterExecute(s)
    \/ \E s \in Slots : SignalAlarm(s)
    \/ \E s \in Slots : GetConnection(s)
    \/ \E s \in Slots : SetupS3(s)
    \/ \E s \in Slots : ConSql(s)
    \/ \E s \in Slots : ConClose(s)
    \/ \E s \in Slots : FinallyAlarm(s)
    \/ \E s \in Slots : CallReturns(s)
    \/ Tick
    \/ AlarmFires
    \/ Finalize

InitEngine ==
    /\ files = <<>>
    /\ settings = [duckdb_page_size |-> MaxSize]
    /\ workspace = PublicOrphan
    /\ call = NoCall
    /\ http = NoHttp
    /\ export = ExportIdle
    /\ KeptIdle

SpecEngine == InitEngine /\ [][NextEngine]_vars

\* ================================================================== claims
\* A node of a rejected class anywhere in the statement.
RECURSIVE HasDisallowedNode(_)
HasDisallowedNode(st) ==
    \/ st.type \in DISALLOWED_EXPRESSIONS
    \/ \E i \in 1..Len(st.inner) : HasDisallowedNode(st.inner[i])
    \/ \E i \in 1..Len(st.ctes) : HasDisallowedNode(st.ctes[i].body)
    \/ \E i \in 1..Len(st.from) :
          st.from[i].kind = "Subquery" /\ HasDisallowedNode(st.from[i].body[1])
    \/ \E i \in 1..Len(st.where) : HasDisallowedNode(st.where[i])

\* The names of the table references of a query, in any of its scopes, that
\* name neither a CTE in scope nor a file of the list.
RECURSIVE UnknownTables(_, _, _)
UnknownTables(sel, env, fs) ==
    LET visible == env \cup CteNames(sel.ctes)
    IN {sel.from[i].name : i \in {j \in 1..Len(sel.from) :
                                     /\ sel.from[j].kind = "Table"
                                     /\ sel.from[j].name \notin visible
                                     /\ sel.from[j].name \notin TableNamesOf(fs)}}
       \cup UNION {UnknownTables(sel.ctes[i].body, env, fs) : i \in 1..Len(sel.ctes)}
       \cup UNION {UnknownTables(sel.from[i].body[1], visible, fs) :
                     i \in {j \in 1..Len(sel.from) : sel.from[j].kind = "Subquery"}}
       \cup UNION {UnknownTables(sel.where[i], visible, fs) : i \in 1..Len(sel.where)}

\* The rows of the statement as written, run without pagination.
Unpaginated(query, fs) ==
    execute_duckdb(validate_query_and_map_tables(parse_one(query).expr, fs).expr, fs, TRUE).rows

\* The page size a call asked for.
RequestedSize(c) == IF IsNone(c.size) THEN settings.duckdb_page_size ELSE Val(c.size)

\* rows first..last of a sequence (empty when first > last).
Slice(rows, first, last) == IF first > last THEN <<>> ELSE SubSeq(rows, first, last)

Returned(c) == c.op = "execute" /\ c.err = ""

\* C1: validate_query and execute_query raise DisallowedQuery for every
\* statement that contains a node of a rejected class.
C1_DisallowedRejected ==
    (call.op \in {"validate", "execute"} /\ HasDisallowedNode(call.query))
        => call.err = "DisallowedQuery"

\* C2: every statement execute_query hands to the engine is free of nodes of
\* the rejected classes.
C2_EngineOnlyReads ==
    \A i \in 1..Len(call.engine) : ~HasDisallowedNode(call.engine[i])

C4_PageSlice ==
    (Returned(call) /\ ~call.count /\ ~IsNone(call.page))
        => LET R == Unpaginated(call.query, files)
               p == Val(call.page)
               s == RequestedSize(call)
           IN /\ call.rows = Slice(R, (p - 1) * s + 1, Min(p * s, Len(R)))
              /\ call.has_more = (Len(R) > p * s)

\* C5: the endpoint's page p holds rows (p-1)*ps+1 .. min(p*ps, N) of the
\* result, ps = duckdb_page_size, and has_more iff page p+1 is non-empty
\* (stated for statements that carry no LIMIT of their own).
C5_EndpointPages ==
    (/\ http.op = "query" /\ http.invoked
     /\ Returned(call) /\ ~call.count /\ IsNone(call.query.limit))
        => LET R == Unpaginated(call.query, files)
               p == Val(call.page)
               ps == settings.duckdb_page_size
           IN /\ http.rows = Slice(R, (p - 1) * ps + 1, Min(p * ps, Len(R)))
              /\ http.has_more = (Len(R) > p * ps)

\* C6 as claimed: every QueryResult has at most the requested size of rows,
\* page = None included.
C6_AtMostSize ==
    Returned(call) => Len(call.rows) <= RequestedSize(call)

\* C6 amended: at most the requested size of rows when a page number is given
\* or in count mode; with page = None in row mode, all rows of the statement.
C6_AtMostSizeWhenPaged ==
    Returned(call) =>
        IF call.count \/ ~IsNone(call.page)
        THEN Len(call.rows) <= RequestedSize(call)
        ELSE call.rows = Unpaginated(call.query, files)

\* C6 witness: a page that was trimmed to exactly the requested size.
C6_Witness ==
    /\ Returned(call) /\ ~call.count /\ call.page = Some(1)
    /\ call.size = Some(MaxSize)
    /\ Len(call.rows) = MaxSize
    /\ call.has_more

\* C7: has_more is true iff the statement's result has rows after the ones
\* returned (stated for statements that carry no LIMIT of their own).
C7_HasMoreExact ==
    (Returned(call) /\ call.query.type = "Select" /\ IsNone(call.query.limit))
        => LET R == Unpaginated(call.query, files)
               after == IF call.count \/ IsNone(call.page) THEN FALSE
                        ELSE Len(R) > Val(call.page) * RequestedSize(call)
           IN call.has_more = after

\* C8: count mode returns one row, one column named count, holding the number
\* of rows of the unpaginated result, with has_more false, whatever page and
\* size are.
C8_CountMode ==
    (Returned(call) /\ call.count)
        => /\ call.columns = <<"count">>
           /\ call.rows = <<<<Len(Unpaginated(call.query, files))>>>>
           /\ call.has_more = FALSE

\* C8 witness: a count of more rows than the page size, asked with page 2.
C8_Witness ==
    /\ Returned(call) /\ call.count
    /\ call.page = Some(2) /\ call.size = Some(1)
    /\ call.rows = <<<<MaxRows>>>>

\* The names a column qualifier or join condition can use.
Qualifiers == TableNames \cup (Aliases \ {""}) \cup {"c", "d", "q"}

\* A qualifier resolves to a FROM item by its alias, or by its table name
\* when it has no alias.
Resolves(item, q) ==
    IF item.kind = "Table" /\ item.alias = "" THEN item.name = q
    ELSE item.alias # "" /\ item.alias = q

\* Every FROM item of every scope resolves the same qualifiers before and
\* after rewriting, and a replaced reference carries the user's alias or
\* else the table name.
RECURSIVE AliasKept(_, _)
AliasKept(old, new) ==
    /\ \A i \in 1..Len(old.from) :
         /\ \A q \in Qualifiers : Resolves(old.from[i], q) <=> Resolves(new.from[i], q)
         /\ new.from[i].kind = "ReadCsv" =>
              new.from[i].alias = (IF old.from[i].alias # "" THEN old.from[i].alias
                                   ELSE old.from[i].name)
         /\ old.from[i].kind = "Subquery" =>
              AliasKept(old.from[i].body[1], new.from[i].body[1])
    /\ \A i \in 1..Len(old.ctes) : AliasKept(old.ctes[i].body, new.ctes[i].body)
    /\ \A i \in 1..Len(old.where) : AliasKept(old.where[i], new.where[i])

\* C9: after table rewriting each replaced reference carries the alias the
\* user wrote, or the table name, so qualifiers resolve as before.
C9_AliasPreserved ==
    (call.op = "execute" /\ Len(call.engine) = 1 /\ call.query.type = "Select")
        => AliasKept(IF call.count THEN CountText(call.query) ELSE call.query,
                     call.engine[1])

\* C9 witness: a join of an aliased and an unaliased table was rewritten and
\* run.
C9_Witness ==
    /\ Returned(call)
    /\ call.query = Select(<<Tbl("sales", "t"), Tbl("users", "")>>)
    /\ Len(call.engine) = 1
    /\ call.engine[1].from[1].kind = "ReadCsv"
    /\ call.engine[1].from[2].alias = "users"

\* Number of header lines in a sequence of CSV lines.
HeaderCount(lines) == Cardinality({i \in 1..Len(lines) : lines[i].header})

\* C10: a finished export has delivered the header line exactly once, as the
\* first line.
C10_HeaderOnce ==
    (export.pc = "done" /\ export.fetches > 0)
        => /\ HeaderCount(export.stream) = 1
           /\ export.stream[1].header

\* The data rows of a sequence of CSV lines, in the order written.
DataRows(lines) ==
    LET data == SelectSeq(lines, LAMBDA l : ~l.header)
    IN [i \in 1..Len(data) |-> data[i].row]

\* The rows of execute_query in row mode for page, page + 1, ... up to the
\* first result with has_more = false, one after the other.
RECURSIVE RowModePages(_, _, _, _)
RowModePages(query, fs, page, size) ==
    LET r == execute_query(query, fs, Some(page), Some(size), FALSE, TRUE)
    IN IF r.err # "" THEN <<>>
       ELSE IF r.has_more /\ r.rows # <<>>
       THEN r.rows \o RowModePages(query, fs, page + 1, size)
       ELSE r.rows

\* The file list the export of the request in flight was given.
ExportFiles == list_workspace_files(workspace, http.user, files)

\* C11: the data rows a finished export has delivered are, in order and in
\* number, the rows of execute_query in row mode for page 1, 2, ... until
\* has_more is false (asked with the default page size).
C11_ExportEqualsPages ==
    (export.pc = "done" /\ export.fetches > 0)
        => DataRows(export.stream)
             = RowModePages(export.query, ExportFiles, 1, settings.duckdb_page_size)

\* C11 witness: an export of three pages that delivered every row of the
\* largest file, the reference being paged one row at a time.
C11_Witness ==
    /\ export.pc = "done"
    /\ export.fetches = 3
    /\ Len(DataRows(export.stream)) = MaxRows
    /\ settings.duckdb_page_size = 1

\* C12: during one export the statement is parsed once, and classified and
\* table-resolved once (not at all when it does not parse), however many
\* pages are fetched.
C12_ParsedOnce ==
    export.fetches > 0 => export.parses = 1 /\ export.resolutions <= 1

\* C13: a failed execute_query carries no QueryResult, and an export whose
\* execution ended in failure has delivered no data row.
C13_NoPartialResult ==
    /\ (call.op = "execute" /\ call.err # "")
          => call.columns = <<>> /\ call.rows = <<>>
    /\ export.pc = "failed" => DataRows(export.stream) = <<>>

\* C14: a validate_query call leaves the file list, the saved queries, the
\* connections and the alarm as they were and hands nothing to the engine;
\* and the outcome of an execute_query call is the one its arguments and
\* the file list give, whatever calls came before it.
C14_ValidateHasNoEffect ==
    [][/\ call'.op = "validate" =>
            /\ UNCHANGED <<files, settings, workspace, saved, proc, alarm, conns, objects>>
            /\ call'.engine = <<>>
            /\ call'.rows = <<>>
       /\ call'.op = "execute" =>
            \E up \in BOOLEAN :
                call' = execute_query(call'.query, files, call'.page, call'.size,
                                      call'.count, up)]_vars

\* C14 witness: validate_query approved a query over two files.
C14_Witness ==
    /\ call.op = "validate"
    /\ call.err = ""
    /\ call.query = Select(<<Tbl("sales", "t"), Tbl("users", "")>>)
    /\ Len(files) = 2
    /\ conns = 0

\* C15: every saved query has a text that validate_query approves against
\* the files of the workspace, and a save that validation rejected adds no
\* row.
C15_SavedWereApproved ==
    /\ \A i \in 1..Len(saved) : validate_query(saved[i].sql_text, files).err = ""
    /\ call.err \in {"BadQuery", "DisallowedQuery"} => saved = <<>>

\* C16: a call that has returned or raised has closed the connection it
\* opened, and with no call in flight no connection is open.
C16_ConnectionsClosed ==
    /\ \A s \in Slots : proc[s].pc = "done" => ~proc[s].con
    /\ (\A s \in Slots : proc[s].pc = "idle") => conns = 0

\* The call of slot s asked for a timeout and is past arming it.
Timed(s) ==
    /\ ~IsNone(proc[s].timeout)
    /\ proc[s].pc \in {"connect", "setup", "run", "close", "finally", "done"}

\* C17: a call with a timeout has its timer pending while it runs, a call
\* whose bound elapsed fails with QueryTimeout, and a call that has returned
\* or raised has no timer of its own pending.
C17_TimeoutAborts ==
    \A s \in Slots :
        /\ (Timed(s) /\ InFlight(proc[s]) /\ ~proc[s].expired)
              => alarm.armed /\ alarm.owner = s
        /\ (proc[s].pc = "done" /\ proc[s].expired) => proc[s].err = "QueryTimeout"
        /\ proc[s].pc = "done" => ~(alarm.armed /\ alarm.owner = s)

\* C18: of two calls that asked for a timeout at the same time, neither has
\* its timer removed or replaced by the other, QueryTimeout is raised only in
\* a call whose bound elapsed, and a call whose bound has not elapsed
\* completes.
C18_NoInterference ==
    \A s, o \in Slots :
        (/\ s # o
         /\ ~IsNone(proc[s].timeout) /\ ~IsNone(proc[o].timeout)
         /\ proc[s].pc # "idle" /\ proc[o].pc # "idle")
            => /\ (Timed(s) /\ InFlight(proc[s]) /\ ~proc[s].expired)
                     => alarm.armed /\ alarm.owner = s
               /\ proc[s].err = "QueryTimeout" => proc[s].expired
               /\ (proc[s].pc = "done" /\ ~proc[s].expired)
                     => proc[s].err \in {"", "BadQuery"}

C20_RejectionIsReported ==
    (/\ http.op = "query" /\ http.invoked
     /\ call.err \in {"BadQuery", "DisallowedQuery"}
     /\ \/ HasDisallowedNode(call.query)
        \/ UnknownTables(call.query, {}, list_workspace_files(workspace, http.user, files)) # {})
        => http.status # "200" /\ http.error # ""

\* C21: on a workspace that is not public, a request to either query
\* endpoint by an anonymous user or by a user who is not the owner makes no
\* execute_query call, and its response is the empty one, whatever the files
\* hold.
C21_PrivateDenied ==
    (/\ ~workspace.is_public
     /\ http.op \in {"query", "csv"}
     /\ http.user # workspace.owner_id)
        => /\ call = NoCall
           /\ http = Response(http.op, http.user, TRUE, FALSE, NoResult)
           /\ export.fetches = 0
           /\ export.stream = <<>>

\* C21 witness: a signed-in user who is not the owner asked for the export of
\* a private workspace that holds two files with rows.
C21_Witness ==
    /\ ~workspace.is_public
    /\ http.op = "csv"
    /\ http.user = "u2"
    /\ Len(files) = 2
    /\ files[1].row_count = MaxRows
    /\ export.pc = "done"

\* C22: a delete call removes the row, and only that row, when the query
\* belongs to the workspace and the workspace is public without owner or the
\* caller is its owner; for an id that is unknown or of another workspace it
\* raises QueryNotFound, for any other caller WorkspaceForbidden, and then
\* the rows stay as they were.
C22_DeleteQuery ==
    [][call'.op \in {"delete", "workspace_delete"} =>
        LET id == call'.query_id
            user == call'.user
            found == \E i \in 1..Len(saved) :
                        saved[i].id = id /\ saved[i].workspace_id = WorkspaceId
            allowed == \/ workspace.is_public /\ workspace.owner_id = ""
                       \/ user # "" /\ user = workspace.owner_id
        IN IF ~found
           THEN call'.err = "QueryNotFound" /\ saved' = saved
           ELSE IF ~allowed
           THEN call'.err = "WorkspaceForbidden" /\ saved' = saved
           ELSE /\ call'.err = ""
                /\ \A i \in 1..Len(saved') : saved'[i].id # id
                /\ Len(saved') = Len(saved) - 1
                /\ \A i \in 1..Len(saved) :
                      saved[i].id # id => \E j \in 1..Len(saved') : saved'[j] = saved[i]
      ]_vars

\* C22 witness: the owner of a public workspace deleted one of its two
\* queries, the other being left.
C22_Witness ==
    /\ call.op = "delete"
    /\ call.err = ""
    /\ call.user = "u1"
    /\ workspace = PublicOwned
    /\ saved = <<StoredQuery("q2", WorkspaceId)>>

\* The FROM item is a read of the storage object of the file of that table
\* name, with the file's delimiter and quote character.
ReadsFileOf(item, name, fs) ==
    /\ item.kind = "ReadCsv"
    /\ \E i \in 1..Len(fs) :
          /\ fs[i].table_name = name
          /\ item.name = fs[i].storage_path
          /\ item.delim = fs[i].csv_metadata.delimiter
          /\ item.quote = fs[i].csv_metadata.quotechar

\* Every table reference of old, in every scope, that is no reference to a
\* CTE in scope is in new a read of the file of its name.
RECURSIVE AllMapped(_, _, _, _)
AllMapped(old, new, env, fs) ==
    LET visible == env \cup CteNames(old.ctes)
    IN /\ \A i \in 1..Len(old.ctes) :
            AllMapped(old.ctes[i].body, new.ctes[i].body,
                      env \cup {old.ctes[j].alias : j \in 1..(i - 1)}, fs)
       /\ \A i \in 1..Len(old.from) :
            /\ (old.from[i].kind = "Table" /\ old.from[i].name \notin visible)
                  => ReadsFileOf(new.from[i], old.from[i].name, fs)
            /\ old.from[i].kind = "Subquery"
                  => AllMapped(old.from[i].body[1], new.from[i].body[1], visible, fs)
       /\ \A i \in 1..Len(old.where) :
            AllMapped(old.where[i], new.where[i], visible, fs)

C24_OwnLimitKept ==
    (/\ Returned(call) /\ ~call.count /\ call.page = Some(1)
     /\ (~IsNone(call.query.limit) \/ ~IsNone(call.query.offset)))
        => RowModePages(call.query, files, 1, RequestedSize(call))
             = Unpaginated(call.query, files)

\* C25: wherever row mode succeeds, count mode succeeds too and its count is
\* the number of rows of row mode over pages 1, 2, ... until has_more is false.
C25_CountAgreesWithRows ==
    (Returned(call) /\ ~call.count /\ call.page = Some(1))
        => LET counted == execute_query(call.query, files, None, None, TRUE, TRUE)
               paged == RowModePages(call.query, files, 1, RequestedSize(call))
           IN /\ counted.err = ""
              /\ counted.rows = <<<<Len(paged)>>>>

\* C26: validate_query accepts a query exactly when execute_query in row mode
\* gets through parsing, classification, rewriting and limit injection and
\* reaches the engine call; a query it rejects is rejected by execute_query
\* with the same kind of error.
C26_ValidateAgreesWithExecute ==
    (call.op = "execute" /\ ~call.count)
        => LET approved == validate_query(call.query, files).err = ""
           IN /\ approved <=> Len(call.engine) = 1
              /\ ~approved => call.err = validate_query(call.query, files).err

\* C27: the export asks execute_query for page p + 1 only when every row of
\* pages 1..p has been handed to the consumer, and the generator holds the
\* rows of at most one page.
C27_Backpressure ==
    [][/\ (export'.fetches = export.fetches + 1)
            => /\ export.pending = <<>>
               /\ Len(DataRows(export.stream)) = export.fetches * CsvPageSize
               /\ export'.page = export'.fetches
       /\ Len(export'.pending) <= CsvPageSize
      ]_vars

\* C27 witness: page 2 was fetched after the rows of page 1 were all
\* delivered, and its rows are waiting to be written.
C27_Witness ==
    /\ export.pc = "rows"
    /\ export.page = 2
    /\ export.fetches = 2
    /\ Len(DataRows(export.stream)) = CsvPageSize
    /\ Len(export.pending) = CsvPageSize

\* ceil(n / c) for n >= 0, c > 0
CeilDiv(n, c) == (n + c - 1) \div c

\* The number of execute_query calls an export of n rows takes.
CallsFor(n) == IF n = 0 THEN 1 ELSE CeilDiv(n, CsvPageSize)

\* C28: an export of a result of N rows calls execute_query exactly
\* max(1, ceil(N / c)) times, c the export's page size, for page 1, 2, ... in
\* order, and asks for no page after the first whose has_more is false.
C28_ExportCalls ==
    (export.fetches > 0 /\ export.pc # "failed")
        => LET N == Len(Unpaginated(export.query, ExportFiles))
           IN /\ export.page <= CallsFor(N)
              /\ export.page = export.fetches + (IF export.pc = "fetch" THEN 1 ELSE 0)
              /\ export.pc = "done" => export.fetches = CallsFor(N)

\* C29: after any sequence of upload_file and delete_file calls no two files
\* of the workspace have the same table_name.
C29_TableNamesUnique ==
    \A i, j \in 1..Len(files) :
        i # j => files[i].table_name # files[j].table_name

\* C30: an upload_file call that fails leaves the workspace as it was: the
\* file records, the stored objects and storage_used are unchanged, also when
\* overwrite is true and a file of the same filename exists.
C30_FailedUploadChangesNothing ==
    [][(call'.op = "upload" /\ call'.err # "")
          => /\ files' = files
             /\ objects' = objects
             /\ workspace'.storage_used = workspace.storage_used
      ]_vars

====
